---- MODULE Spec2Model ----
(***************************************************************************)
(* Model of the ATA/ATAPI driver of kernel/device/ata.c: the bus scan of   *)
(* ata_install (ata_detect + ata_cmd_identify + ata_register_device) and   *)
(* the generic device operations ata_read / ata_write / ata_seek, which    *)
(* reach the descriptor through the backing pointer device->p.             *)
(*                                                                         *)
(* The hardware is the environment: every value the driver reads from a    *)
(* port is an input of the action, drawn from a small set of bytes.        *)
(* A polling loop is represented by the last status it reads (the one      *)
(* that ends the loop); a status register that never ends a loop is the    *)
(* Stall actions, after which the caller never runs again.                 *)
(***************************************************************************)
EXTENDS Integers, Sequences, FiniteSets, TLC

VARIABLES
    phase,      \* "install": inside ata_install; "run": it has returned;
                \* "stalled": the caller is stuck in a polling loop
    slot,       \* index (1..4) of the next ata_detect call of ata_install
    ata_dev,    \* the local struct ata_device of ata_install (one storage)
    devices,    \* the device table filled by device_register
    scan,       \* the ata_detect calls made so far, with their results
    last        \* what the most recent operation did and returned

vars == <<phase, slot, ata_dev, devices, scan, last>>

(***************************************************************************)
(* Bounds of the model.                                                    *)
(***************************************************************************)
MaxCap == 1         \* read capacities offered by callers: 0..MaxCap bytes
MaxXferLo == 2      \* low byte of the transfer size reported: 0..MaxXferLo

(***************************************************************************)
(* Constants of ata.c.                                                     *)
(***************************************************************************)
ATA_DATA_PORT == 0
ATA_FEAT_PORT == 1
ATA_SECTOR_COUNT_PORT == 2
ATA_LBALO_PORT == 3
ATA_LBAMID_PORT == 4
ATA_LBAHI_PORT == 5
ATA_DRIVE_PORT == 6
ATA_COMMAND_PORT == 7

ATA_CMD_IDENTIFY == 236
ATA_CMD_PACKET_IDENTIFY == 161

ATA_TYPE_UNKNOWN == 0
ATA_TYPE_PATAPI == 1
ATA_TYPE_SATAPI == 2
ATA_TYPE_PATA == 3
ATA_TYPE_SATA == 4

U8 == 256
U16 == 65536

\* A uint32_t is the pair <<high 16 bits, low 16 bits>>.  ToU32 is the C
\* conversion of an int32_t (-2^31 .. 2^31 - 1) to uint32_t.
ToU32(n) ==
    IF n >= 0
    THEN << n \div U16, n % U16 >>
    ELSE LET m == (n + 2147483647) + 1
         IN  << 32768 + (m \div U16), m % U16 >>

Bit(x, k) == (x \div (2 ^ k)) % 2

\* a | b on bytes
BitOr(a, b) ==
    LET F[k \in 0..8] ==
            IF k = 8 THEN 0
            ELSE (IF Bit(a, k) = 1 \/ Bit(b, k) = 1 THEN 2 ^ k ELSE 0)
                 + F[k + 1]
    IN  F[0]

ATA_ISBSY(status) == Bit(status, 7) = 1
ATA_ISRDY(status) == Bit(status, 6) = 1
ATA_ISDRQ(status) == Bit(status, 3) = 1
ATA_ISERR(status) == Bit(status, 0) = 1

(***************************************************************************)
(* Port accesses.  An access is a triple <<kind, port, value>>:            *)
(*   outb  a byte written            inb   a byte read                     *)
(*   wait  ata_wait(value): value dummy reads of port 0x3F6                *)
(*   spin  a polling loop whose status is not used afterwards: reads of    *)
(*         the port until (status & value) = 0                             *)
(*   inw   value single-word reads  insw / outsw  a block of value words   *)
(* Port numbers are uint16_t, bytes written are uint8_t.                   *)
(***************************************************************************)
Port(base, off) == (base + off) % U16
outb(port, val) == <<"outb", port, val % U8>>
inb(port, val) == <<"inb", port, val>>
ata_wait(n) == <<"wait", 1014, n>>

ata_device_is_packet(d) ==
    d.type = ATA_TYPE_PATAPI \/ d.type = ATA_TYPE_SATAPI

ata_software_reset(d) ==
    << outb(d.control_port, 4), outb(d.control_port, 0) >>

ata_select_drive(d) ==
    << outb(Port(d.base_port, ATA_DRIVE_PORT), BitOr(160, d.slave_bit)),
       ata_wait(5) >>

(***************************************************************************)
(* Values the hardware answers with.                                       *)
(***************************************************************************)
\* LBA-mid / LBA-high pairs read after reset: the four signatures and a
\* pair that is no signature
KnownSignatures == { <<20, 235>>, <<105, 150>>, <<0, 0>>, <<60, 195>> }
SignaturePairs == KnownSignatures \cup { <<235, 20>> }
\* answers to the IDENTIFY command, one for each way through
\* ata_cmd_identify (a read that is not reached is given as 0)
IdentifyAnswers ==
    { [st1 |-> 0, lba |-> <<0, 0>>, st2 |-> 0],
      [st1 |-> 81, lba |-> <<0, 0>>, st2 |-> 0],
      [st1 |-> 88, lba |-> <<20, 235>>, st2 |-> 0],
      [st1 |-> 88, lba |-> <<0, 0>>, st2 |-> 89],
      [st1 |-> 80, lba |-> <<0, 0>>, st2 |-> 88] }
\* content of buffer[0] when ata_detect tests it: word 0 of the IDENTIFY
\* data when ata_cmd_identify stored it, otherwise whatever the
\* uninitialised array on the stack holds
Word0Values == {64, 16384, 34240, 49152}
\* values of uninitialised or reused stack memory
JunkTypes == ATA_TYPE_UNKNOWN .. ATA_TYPE_SATA
\* 0, 0x01020304 and 0xFFFFFFFF
PosValues == { <<0, 0>>, <<258, 772>>, <<65535, 65535>> }

(***************************************************************************)
(* ata_cmd_identify: hw = [st1, lba, st2] are the status ending the busy   *)
(* poll, the LBA-mid/high pair read back and the status ending the         *)
(* data-request poll.  filled tells whether the 256 words were stored.     *)
(***************************************************************************)
IdentifyDrqErrorIgnored(status) == FALSE

\* the test made on the status returned by ata_wait_drq_set
IdentifyDrqError(status) == ATA_ISERR(status)

ata_cmd_identify(d, hw) ==
    LET cmdport == Port(d.base_port, ATA_COMMAND_PORT)
        send == ata_select_drive(d) \o
                << outb(Port(d.base_port, ATA_SECTOR_COUNT_PORT), 0),
                   outb(Port(d.base_port, ATA_LBALO_PORT), 0),
                   outb(Port(d.base_port, ATA_LBAMID_PORT), 0),
                   outb(Port(d.base_port, ATA_LBAHI_PORT), 0),
                   outb(cmdport, IF ata_device_is_packet(d)
                                 THEN ATA_CMD_PACKET_IDENTIFY
                                 ELSE ATA_CMD_IDENTIFY),
                   inb(cmdport, hw.st1) >>
        check == << inb(Port(d.base_port, ATA_LBAMID_PORT), hw.lba[1]),
                    inb(Port(d.base_port, ATA_LBAHI_PORT), hw.lba[2]) >>
        drq == << inb(cmdport, hw.st2) >>
        data == << <<"inw", Port(d.base_port, ATA_DATA_PORT), 256>> >>
    IN  IF hw.st1 = 0
        THEN [ret |-> 0, filled |-> FALSE, io |-> send]
        ELSE IF ATA_ISERR(hw.st1)
        THEN [ret |-> 0, filled |-> FALSE, io |-> send]
        ELSE IF hw.lba[1] # 0 \/ hw.lba[2] # 0
        THEN [ret |-> 0, filled |-> FALSE, io |-> send \o check]
        ELSE IF IdentifyDrqError(hw.st2)
        THEN [ret |-> 0, filled |-> FALSE, io |-> send \o check \o drq]
        ELSE [ret |-> 1, filled |-> TRUE,
              io |-> send \o check \o drq \o data]

(***************************************************************************)
(* ata_detect, in three parts: the classification by signature bytes, the  *)
(* test of buffer[0], and the whole function.                              *)
(***************************************************************************)
ClassifySignature(device, sector_mid, sector_hi) ==
    IF sector_mid = 20 /\ sector_hi = 235
    THEN [device EXCEPT !.type = ATA_TYPE_PATAPI]
    ELSE IF sector_mid = 105 /\ sector_hi = 150
    THEN [device EXCEPT !.type = ATA_TYPE_SATAPI]
    ELSE IF sector_mid = 0 /\ sector_hi = 0
    THEN [device EXCEPT !.type = ATA_TYPE_PATA]
    ELSE IF sector_mid = 60 /\ sector_hi = 195
    THEN [device EXCEPT !.type = ATA_TYPE_SATA]
    ELSE device

VerifyIdentifiedBroken(device, buffer0) ==
    IF Bit(buffer0, 15) = 1 THEN 0 ELSE 1

VerifyIdentified(device, buffer0) ==
    IF ata_device_is_packet(device)
    THEN IF Bit(buffer0, 15) = 0 /\ Bit(buffer0, 14) = 0 THEN 0 ELSE 1
    ELSE IF Bit(buffer0, 15) = 1 THEN 0 ELSE 1

\* hw = [sig, id, word]: signature pair, answers to IDENTIFY, content of
\* buffer[0] when tested.  The status that ends the busy poll after the
\* reset only selects a log message.
ata_detect(base_port, control_port, slave_bit, device, hw) ==
    LET filled == [device EXCEPT !.base_port = base_port,
                                 !.control_port = control_port,
                                 !.slave_bit = slave_bit]
        reset == ata_software_reset(filled) \o
                 << <<"spin", Port(base_port, ATA_COMMAND_PORT), 128>>,
                    inb(Port(base_port, ATA_LBAMID_PORT), hw.sig[1]),
                    inb(Port(base_port, ATA_LBAHI_PORT), hw.sig[2]) >>
        typed == ClassifySignature(filled, hw.sig[1], hw.sig[2])
        id == ata_cmd_identify(typed, hw.id)
    IN  [ret |-> VerifyIdentified(typed, hw.word),
         device |-> typed,
         idret |-> id.ret,
         filled |-> id.filled,
         buffer0 |-> hw.word,
         io |-> reset \o id.io]

(***************************************************************************)
(* atapi_read_block: hw = [st, mid, hi] are the status ending the          *)
(* data-request poll and the transfer size read from LBA-mid / LBA-high.   *)
(* ret is the int32_t returned, nbytes the bytes insw stores in buffer.    *)
(***************************************************************************)
ReadAnswers ==
    { [st |-> 81, mid |-> 0, hi |-> 0], [st |-> 89, mid |-> 0, hi |-> 0] }
    \cup [st : {88}, mid : 0..MaxXferLo, hi : {0}]
    \cup { [st |-> 88, mid |-> 2, hi |-> 1] }

PacketFailedUnlessDrq(status) ==
    Bit(status, 0) = 1 /\ Bit(status, 3) = 0

\* the test made on the status that ends the data-request poll
PacketFailed(status) == Bit(status, 0) = 1

ReadCommandLittleEndian(lba) ==
    << 168, 0,
       lba[2] % U8, lba[2] \div U8,
       lba[1] % U8, lba[1] \div U8,
       0, 0, 0, 1, 0, 0 >>

\* the 12 bytes of read_cmd when they are sent
ReadCommand(lba) ==
    << 168, 0,
       lba[1] \div U8, lba[1] % U8,
       lba[2] \div U8, lba[2] % U8,
       0, 0, 0, 1, 0, 0 >>

atapi_read_block(dev, lba, maxlen, hw) ==
    LET cmdport == Port(dev.base_port, ATA_COMMAND_PORT)
        send == << outb(Port(dev.base_port, ATA_DRIVE_PORT), dev.slave_bit),
                   ata_wait(4),
                   outb(Port(dev.base_port, ATA_FEAT_PORT), 0),
                   outb(Port(dev.base_port, ATA_LBAMID_PORT), maxlen[2] % U8),
                   outb(Port(dev.base_port, ATA_LBAHI_PORT),
                        maxlen[2] \div U8),
                   outb(cmdport, 160),
                   <<"spin", cmdport, 128>>,
                   inb(cmdport, hw.st) >>
        read_cmd == ReadCommand(lba)
        size == (hw.hi * U8) + hw.mid
        xfer == << <<"outsw", dev.base_port, 6>>,
                   inb(Port(dev.base_port, ATA_LBAHI_PORT), hw.hi),
                   inb(Port(dev.base_port, ATA_LBAMID_PORT), hw.mid),
                   <<"insw", dev.base_port, size \div 2>>,
                   <<"spin", cmdport, 136>> >>
    IN  IF PacketFailed(hw.st)
        THEN [ret |-> -1, packet |-> <<>>, nbytes |-> 0, io |-> send]
        ELSE [ret |-> size, packet |-> read_cmd,
              nbytes |-> 2 * (size \div 2), io |-> send \o xfer]

(***************************************************************************)
(* ata_read, ata_write, ata_seek on the descriptor d = device->p.          *)
(***************************************************************************)
\* dev is the descriptor as the call leaves it
ata_read_lba0(d, size, hw) ==
    LET r == atapi_read_block(d, <<0, 0>>, size, hw)
    IN  [result |-> "OK", size |-> ToU32(r.ret), ret |-> r.ret,
         lba |-> <<0, 0>>, packet |-> r.packet, nbytes |-> r.nbytes,
         io |-> r.io, dev |-> d]

\* a read that moves the cursor to the next block
ata_read_advance(d, size, hw) ==
    LET r == atapi_read_block(d, d.pos, size, hw)
    IN  [result |-> "OK", size |-> ToU32(r.ret), ret |-> r.ret,
         lba |-> d.pos, packet |-> r.packet, nbytes |-> r.nbytes,
         io |-> r.io,
         dev |-> [d EXCEPT !.pos = <<d.pos[1], (d.pos[2] + 1) % U16>>]]

ata_read(d, size, hw) ==
    LET r == atapi_read_block(d, d.pos, size, hw)
    IN  [result |-> "OK", size |-> ToU32(r.ret), ret |-> r.ret,
         lba |-> d.pos, packet |-> r.packet, nbytes |-> r.nbytes,
         io |-> r.io, dev |-> d]

\* values a result_t can take
ResultValues == {"OK", "FAILURE", "UNSUPPORTED"}

ata_write(junk) == junk

ata_seek_relative(d, pos) ==
    [d EXCEPT !.pos = << (d.pos[1] + pos[1]
                            + ((d.pos[2] + pos[2]) \div U16)) % U16,
                         (d.pos[2] + pos[2]) % U16 >>]

ata_seek(d, pos) == [d EXCEPT !.pos = pos]

JunkDevices ==
    { [type |-> ATA_TYPE_UNKNOWN, base_port |-> 65535,
       control_port |-> 0, slave_bit |-> 255, pos |-> <<0, 1>>] }

(***************************************************************************)
(* The device table.  device_register belongs to kernel/device/device.c,   *)
(* which is not part of the sources at hand: it is modelled from the       *)
(* specification (registration fails when the name exists or the table is  *)
(* full).                                                                  *)
(***************************************************************************)
DeviceTableMax == 4

DeviceNames(table) == { table[i].name : i \in 1..Len(table) }

device_register(table, dev) ==
    IF dev.name \in DeviceNames(table) \/ Len(table) >= DeviceTableMax
    THEN table
    ELSE Append(table, dev)

\* dev.p = ata_dev: the address of the caller's struct ata_device
ata_register_device(table, name, p) ==
    device_register(table, [type |-> "DEVICE_RANDOM", name |-> name, p |-> p])

(***************************************************************************)
(* ata_install: four calls of ata_detect on one local descriptor, each     *)
(* followed by a registration when it returned non-zero.                   *)
(***************************************************************************)
InstallCalls ==
    << [base_port |-> 496, control_port |-> 1014, slave_bit |-> 0,
        name |-> "ATA-0"],
       [base_port |-> 496, control_port |-> 1014, slave_bit |-> 16,
        name |-> "ATA-1"],
       [base_port |-> 368, control_port |-> 886, slave_bit |-> 0,
        name |-> "ATA-2"],
       [base_port |-> 368, control_port |-> 886, slave_bit |-> 16,
        name |-> "ATA-3"] >>

\* called tells whether ata_register_device was called
RegisterIfDetectedAlways(table, ret, name) ==
    [called |-> TRUE, table |-> ata_register_device(table, name, "ata_dev")]

RegisterIfDetected(table, ret, name) ==
    IF ret # 0
    THEN [called |-> TRUE,
          table |-> ata_register_device(table, name, "ata_dev")]
    ELSE [called |-> FALSE, table |-> table]

(***************************************************************************)
(* The record kept of the most recent operation.                           *)
(***************************************************************************)
NoOp ==
    [op |-> "none", name |-> "",
     sig |-> <<0, 0>>, idret |-> 0, filled |-> FALSE, buffer0 |-> 0,
     ret |-> 0, result |-> "", pos |-> <<0, 0>>, pseek |-> <<>>,
     cap |-> <<0, 0>>, size |-> <<0, 0>>, lba |-> <<0, 0>>, err |-> FALSE,
     packet |-> <<>>, nbytes |-> 0, io |-> <<>>,
     data |-> <<>>, prev |-> <<>>]

Init ==
    /\ phase = "install"
    /\ slot = 1
    /\ ata_dev \in [type : JunkTypes, base_port : {0}, control_port : {0},
                    slave_bit : {0}, pos : { <<0, 0>>, <<65535, 65535>> }]
    /\ devices = <<>>
    /\ scan = <<>>
    /\ last = NoOp

DetectInputs ==
    [sig : SignaturePairs, id : IdentifyAnswers, word : Word0Values]

\* one "if (ata_detect(...)) ata_register_device(...)" of ata_install,
\* the hardware answering with one of inputs
InstallWith(inputs) ==
    /\ phase = "install"
    /\ \E hw \in inputs :
       \E c \in {InstallCalls[slot]} :
       \E r \in {ata_detect(c.base_port, c.control_port, c.slave_bit,
                            ata_dev, hw)} :
       \E g \in {RegisterIfDetected(devices, r.ret, c.name)} :
             /\ ata_dev' = r.device
             /\ devices' = g.table
             /\ scan' = Append(scan, [base_port |-> c.base_port,
                                      control_port |-> c.control_port,
                                      slave_bit |-> c.slave_bit,
                                      name |-> c.name, ret |-> r.ret,
                                      reg |-> g.called])
             /\ last' = [NoOp EXCEPT
                           !.op = "detect", !.name = c.name,
                           !.sig = hw.sig, !.idret = r.idret,
                           !.filled = r.filled, !.buffer0 = r.buffer0,
                           !.ret = r.ret, !.io = r.io]
    /\ slot' = slot + 1
    /\ phase' = IF slot = Len(InstallCalls) THEN "run" ELSE "install"

InstallStep == InstallWith(DetectInputs)

\* a status register that keeps busy set: ata_wait_bsy_clear never returns
DetectStall ==
    /\ phase = "install"
    /\ phase' = "stalled"
    /\ UNCHANGED <<slot, ata_dev, devices, scan, last>>

(***************************************************************************)
(* The generic device operations, called with a struct device of the       *)
(* table once ata_install has returned.  Deref follows device->p.          *)
(***************************************************************************)
Deref(p) == ata_dev

Seek(i) ==
    /\ phase = "run"
    /\ \E pos \in PosValues :
         /\ ata_dev' = ata_seek(Deref(devices[i].p), pos)
         /\ last' = [NoOp EXCEPT !.op = "seek", !.name = devices[i].name,
                                 !.pos = pos, !.result = "OK"]
    /\ UNCHANGED <<phase, slot, devices, scan>>

Read(i) ==
    /\ phase = "run"
    /\ \E cap \in 0..MaxCap, hw \in ReadAnswers :
       \E r \in {ata_read(Deref(devices[i].p), ToU32(cap), hw)} :
         /\ ata_dev' = r.dev
         /\ last' = [NoOp EXCEPT
                      !.op = "read", !.name = devices[i].name,
                      !.pseek = IF last.op = "seek"
                                   /\ last.name = devices[i].name
                                THEN <<last.pos>> ELSE <<>>,
                      !.cap = ToU32(cap), !.size = r.size,
                      !.result = r.result, !.ret = r.ret, !.lba = r.lba,
                      !.err = (Bit(hw.st, 0) = 1), !.packet = r.packet,
                      !.nbytes = r.nbytes, !.io = r.io]
    /\ UNCHANGED <<phase, slot, devices, scan>>

\* a status register that never ends one of the polls of atapi_read_block
ReadStall(i) ==
    /\ phase = "run"
    /\ phase' = "stalled"
    /\ UNCHANGED <<slot, ata_dev, devices, scan, last>>

\* ata_write has an empty body: it touches nothing and the value the
\* caller receives is whatever the return register holds
Write(i) ==
    /\ phase = "run"
    /\ \E junk \in ResultValues :
         last' = [NoOp EXCEPT !.op = "write", !.name = devices[i].name,
                                !.result = ata_write(junk)]
    /\ UNCHANGED <<phase, slot, ata_dev, devices, scan>>

\* ata_dev is a local variable of ata_install: once ata_install has
\* returned its storage belongs to whatever uses the stack next
StackReuse ==
    /\ phase = "run"
    /\ ata_dev' \in JunkDevices
    /\ last' = [NoOp EXCEPT !.op = "reuse"]
    /\ UNCHANGED <<phase, slot, devices, scan>>

Next ==
    \/ InstallStep
    \/ DetectStall
    \/ \E i \in 1..Len(devices) : Seek(i)
    \/ \E i \in 1..Len(devices) : Read(i)
    \/ \E i \in 1..Len(devices) : ReadStall(i)
    \/ \E i \in 1..Len(devices) : Write(i)
    \/ StackReuse

Spec == Init /\ [][Next]_vars
(***************************************************************************)
(* Properties.  In a state with last.op = "detect" the descriptor ata_dev  *)
(* is as ata_detect left it, and last.name is the name of the slot.        *)
(***************************************************************************)
Registered(name) == name \in DeviceNames(devices)

PacketLBA(p) == << (p[3] * U8) + p[4], (p[5] * U8) + p[6] >>

\* C1: whenever ata_detect returns success the classification of the
\* descriptor is one of PATAPI, SATAPI, PATA, SATA, so no registered device
\* has the classification Unknown.
C1_DetectNeverUnknown ==
    /\ (last.op = "detect" /\ last.ret # 0) =>
           ata_dev.type \in {ATA_TYPE_PATAPI, ATA_TYPE_SATAPI,
                             ATA_TYPE_PATA, ATA_TYPE_SATA}
    /\ (phase = "install" /\ devices # <<>>) =>
           \A i \in 1..Len(devices) :
              Deref(devices[i].p).type # ATA_TYPE_UNKNOWN

\* C2: a signature pair that is none of the four known pairs makes
\* ata_detect return failure, whatever IDENTIFY answers, and nothing is
\* registered for the slot.
C2_ExactMatchOnly ==
    (last.op = "detect" /\ last.sig \notin KnownSignatures) =>
        (last.ret = 0 /\ ~Registered(last.name))

\* C3: when ata_cmd_identify returns failure, ata_detect returns failure
\* for the slot and ata_install registers no device for it.
C3_IdentifyFailureExcluded ==
    (last.op = "detect" /\ last.idret = 0) =>
        (last.ret = 0 /\ ~Registered(last.name))

\* C4: a packet-class candidate whose word 0 has neither bit 15 nor bit 14
\* set, and a candidate that is not packet-class whose word 0 has bit 15
\* set, make ata_detect return failure, and nothing is registered for the
\* slot.
C4_Word0Validation ==
    last.op = "detect" =>
        /\ (ata_device_is_packet(ata_dev) /\ Bit(last.buffer0, 15) = 0
               /\ Bit(last.buffer0, 14) = 0)
             => (last.ret = 0 /\ ~Registered(last.name))
        /\ (~ata_device_is_packet(ata_dev) /\ Bit(last.buffer0, 15) = 1)
             => (last.ret = 0 /\ ~Registered(last.name))

\* a SATAPI candidate on the third slot whose IDENTIFY succeeded with
\* word 0 = 0x0040 is rejected, after an earlier slot was registered
C4_Witness ==
    /\ last.op = "detect" /\ last.name = "ATA-2"
    /\ ata_dev.type = ATA_TYPE_SATAPI
    /\ last.idret = 1 /\ last.buffer0 = 64
    /\ last.ret = 0 /\ ~Registered("ATA-2") /\ Registered("ATA-0")

\* C5: a read stores at most the caller's capacity into the buffer.
C5_ReadWithinCapacity ==
    last.op = "read" => (last.cap[1] > 0 \/ last.nbytes <= last.cap[2])

\* C6: when the device sets the error bit after the PACKET command, the
\* read returns a failure and the caller's capacity field is not
\* overwritten.
C6_ReadErrorPropagates ==
    (last.op = "read" /\ last.err) =>
        (last.result # "OK" /\ last.size = last.cap)

\* C7: on a successful read the capacity field is exactly the number of
\* bytes transferred from the data port into the buffer.
C7_SizeIsBytesTransferred ==
    (last.op = "read" /\ ~last.err) => last.size = ToU32(last.nbytes)

\* C8: a read that immediately follows seek(device, P) on the same device
\* passes P as the logical block address, and the command packet it sends
\* encodes P.
C8_SeekThenRead ==
    (last.op = "read" /\ last.pseek # <<>>) =>
        /\ last.lba = last.pseek[1]
        /\ last.packet # <<>> => PacketLBA(last.packet) = last.pseek[1]

\* seek to 0x01020304 then read: the packet carries 01 02 03 04
C8_Witness ==
    /\ last.op = "read"
    /\ last.pseek = << <<258, 772>> >>
    /\ last.packet = <<168, 0, 1, 2, 3, 4, 0, 0, 0, 1, 0, 0>>

\* C9: a write returns the failure Unsupported, changes no field of the
\* descriptor and makes no port access.
C9_WriteUnsupported ==
    [][(last'.op = "write" /\ last' # last) =>
          (last'.result = "UNSUPPORTED" /\ ata_dev' = ata_dev
             /\ last'.io = <<>>)]_vars

\* C10: the scan visits the four slots in the fixed order; ATA-i is
\* registered (ata_register_device is called with that name) exactly when
\* the detection of slot i succeeded; a slot that fails leaves no entry in
\* the device table and does not end the scan.
C10_ScanOrderAndRegistration ==
    /\ Len(scan) = slot - 1
    /\ \A k \in 1..Len(scan) :
          /\ scan[k].base_port = <<496, 496, 368, 368>>[k]
          /\ scan[k].control_port = <<1014, 1014, 886, 886>>[k]
          /\ scan[k].slave_bit = <<0, 16, 0, 16>>[k]
          /\ scan[k].name = <<"ATA-0", "ATA-1", "ATA-2", "ATA-3">>[k]
          /\ scan[k].reg <=> scan[k].ret # 0
          /\ Registered(scan[k].name) => scan[k].ret # 0
    /\ DeviceNames(devices) \subseteq { scan[k].name : k \in 1..Len(scan) }
    /\ phase = "run" => Len(scan) = 4

\* slots 0 and 2 failed, slots 1 and 3 were detected and registered
C10_Witness ==
    /\ phase = "run" /\ Len(scan) = 4
    /\ scan[1].ret = 0 /\ ~scan[1].reg /\ scan[2].ret # 0 /\ scan[2].reg
    /\ scan[3].ret = 0 /\ ~scan[3].reg /\ scan[4].ret # 0 /\ scan[4].reg
    /\ DeviceNames(devices) = {"ATA-1", "ATA-3"}

(***************************************************************************)
(* Second group of properties.                                             *)
(***************************************************************************)
\* the ports and the selector ata_install gave to the slot of that name
SlotOf(name) == CHOOSE k \in 1..Len(InstallCalls) : InstallCalls[k].name = name

\* the status register read 0 when IDENTIFY polled it (the drive is absent)
StatusReadZero ==
    /\ last.op = "detect"
    /\ last.io[Len(last.io)] =
          inb(Port(ata_dev.base_port, ATA_COMMAND_PORT), 0)

\* C11: on a channel whose status register reads zero, detection returns
\* failure whatever the signature bytes are, and the scan registers no
\* device for the slot.
C11_NoResponseFails ==
    StatusReadZero => (last.ret = 0 /\ ~Registered(last.name))

\* C12: once a device is registered, no later detection, seek, read or
\* write changes the classification, the ports or the slave selector seen
\* through its backing pointer.
C12_DescriptorFixed ==
    [][(last'.op \in {"detect", "seek", "read", "write"}) =>
         \A i \in 1..Len(devices) :
            /\ Deref(devices[i].p)'.type = Deref(devices[i].p).type
            /\ Deref(devices[i].p)'.base_port = Deref(devices[i].p).base_port
            /\ Deref(devices[i].p)'.control_port
                  = Deref(devices[i].p).control_port
            /\ Deref(devices[i].p)'.slave_bit
                  = Deref(devices[i].p).slave_bit]_vars

\* the classification each signature pair stands for
ExpectedClass(sig) ==
    CASE sig = <<20, 235>> -> ATA_TYPE_PATAPI
      [] sig = <<105, 150>> -> ATA_TYPE_SATAPI
      [] sig = <<0, 0>> -> ATA_TYPE_PATA
      [] sig = <<60, 195>> -> ATA_TYPE_SATA
      [] OTHER -> ATA_TYPE_UNKNOWN

\* the IDENTIFY opcode ata_cmd_identify wrote to the command port
IdentifyOpcodeSent ==
    { last.io[j][3] : j \in { k \in 1..Len(last.io) :
          /\ last.io[k][1] = "outb"
          /\ last.io[k][2] = Port(ata_dev.base_port, ATA_COMMAND_PORT) } }

\* C19: the classification ata_detect records, the IDENTIFY opcode it sends
\* and the word-0 rule it applies depend only on the signature bytes read in
\* that call, not on what the descriptor held before.
C19_ClassFromSignatureOnly ==
    last.op = "detect" =>
        LET class == ExpectedClass(last.sig)
            packet == class \in {ATA_TYPE_PATAPI, ATA_TYPE_SATAPI}
        IN  /\ ata_dev.type = class
            /\ IdentifyOpcodeSent =
                  {IF packet THEN ATA_CMD_PACKET_IDENTIFY
                             ELSE ATA_CMD_IDENTIFY}
            /\ last.ret = (IF packet
                           THEN (IF Bit(last.buffer0, 15) = 0
                                    /\ Bit(last.buffer0, 14) = 0
                                 THEN 0 ELSE 1)
                           ELSE (IF Bit(last.buffer0, 15) = 1 THEN 0 ELSE 1))

\* C20: a seek on one registered device leaves the cursor of every other
\* registered device unchanged, and a read on a device goes to the ports
\* and the slave selector of its own slot.
C20_DevicesIndependent ==
    [][/\ (last'.op = "seek") =>
            \A i \in 1..Len(devices) :
               devices[i].name # last'.name =>
                  Deref(devices[i].p)'.pos = Deref(devices[i].p).pos
       /\ (last'.op = "read") =>
            last'.io[1] =
               outb(Port(InstallCalls[SlotOf(last'.name)].base_port,
                         ATA_DRIVE_PORT),
                    InstallCalls[SlotOf(last'.name)].slave_bit)]_vars

\* C13: the cursor is changed by seek only: a seek sets it to the position
\* given, and a read, whether it succeeds or fails with a protocol error,
\* leaves it as it was, so after seeks and reads it is the position of the
\* most recent seek.
C13_CursorOnlyBySeek ==
    [][/\ (last'.op = "read") => ata_dev'.pos = ata_dev.pos
       /\ (last'.op = "seek") => ata_dev'.pos = last'.pos
       /\ (last'.op = "read" /\ last'.pseek # <<>>) =>
             ata_dev'.pos = last'.pseek[1]]_vars

\* seek to 0xFFFFFFFF, then a read that fails with the error bit set
C13_Witness ==
    /\ last.op = "read" /\ last.err
    /\ last.pseek = << <<65535, 65535>> >>
    /\ ata_dev.pos = <<65535, 65535>>

\* the data-port reads in the log of the most recent operation
DataReads ==
    { j \in 1..Len(last.io) : last.io[j][1] \in {"inw", "insw"} }

\* C15: in the IDENTIFY handshake the data port is read only after a status
\* read that shows data-request set and error clear, and then exactly 256
\* words are read; on every failure path (status zero or error bit after the
\* busy poll, non-zero LBA-mid or LBA-high, error bit while waiting for
\* data-request) the function returns failure without any data-port read
\* and without writing the output buffer.
C15_IdentifyDataAfterDrq ==
    last.op = "detect" =>
        LET io == last.io
            n == Len(io)
            cmdport == Port(ata_dev.base_port, ATA_COMMAND_PORT)
        IN  IF last.idret # 0
            THEN /\ DataReads = {n}
                 /\ io[n] = <<"inw", Port(ata_dev.base_port, ATA_DATA_PORT),
                              256>>
                 /\ io[n - 1][1] = "inb" /\ io[n - 1][2] = cmdport
                 /\ Bit(io[n - 1][3], 3) = 1 /\ Bit(io[n - 1][3], 0) = 0
                 /\ io[n - 2] = inb(Port(ata_dev.base_port, ATA_LBAHI_PORT), 0)
                 /\ io[n - 3] = inb(Port(ata_dev.base_port, ATA_LBAMID_PORT),
                                    0)
                 /\ io[n - 4][1] = "inb" /\ io[n - 4][2] = cmdport
                 /\ io[n - 4][3] # 0 /\ Bit(io[n - 4][3], 0) = 0
                 /\ last.filled
            ELSE DataReads = {} /\ ~last.filled

\* an IDENTIFY that succeeded: status 0x58, then the 256 words
C15_Witness ==
    /\ last.op = "detect" /\ last.idret = 1 /\ last.filled
    /\ last.io[Len(last.io) - 1]
          = inb(Port(ata_dev.base_port, ATA_COMMAND_PORT), 88)
    /\ last.io[Len(last.io)][3] = 256

\* C16: when the status that ends the data-request poll after the PACKET
\* command has the error bit set, even together with data-request, the read
\* returns failure without sending the command packet, without reading the
\* transfer size and without reading the data port.
C16_PacketErrorAborts ==
    (last.op = "read" /\ last.err) =>
        /\ last.ret = -1
        /\ last.packet = <<>>
        /\ last.nbytes = 0
        /\ DataReads = {}
        /\ \A j \in 1..Len(last.io) :
              /\ last.io[j][1] # "outsw"
              /\ last.io[j][1] = "inb" =>
                    last.io[j][2] = Port(ata_dev.base_port, ATA_COMMAND_PORT)

\* the status is 0x59: data-request and error together
C16_Witness ==
    /\ last.op = "read" /\ last.ret = -1
    /\ last.io[Len(last.io)]
          = inb(Port(ata_dev.base_port, ATA_COMMAND_PORT), 89)

\* C17: the command packet is 12 bytes sent as six words: byte 0 is 0xA8,
\* bytes 2..5 are the address most significant byte first, byte 9 is 1 and
\* every other byte is 0.
C17_PacketLayout ==
    (last.op = "read" /\ ~last.err) =>
        /\ Len(last.packet) = 12
        /\ \A k \in 1..12 : last.packet[k] \in 0..255
        /\ last.packet[1] = 168
        /\ PacketLBA(last.packet) = last.lba
        /\ last.packet[10] = 1
        /\ \A k \in {2, 7, 8, 9, 11, 12} : last.packet[k] = 0
        /\ \E j \in 1..Len(last.io) :
              last.io[j] = <<"outsw", ata_dev.base_port, 6>>

\* the packet for the address 0x01020304
C17_Witness ==
    /\ last.op = "read" /\ ~last.err /\ last.lba = <<258, 772>>
    /\ last.packet = <<168, 0, 1, 2, 3, 4, 0, 0, 0, 1, 0, 0>>

(***************************************************************************)
(* The polling loops, one status read at a time.  phase is the loop the    *)
(* driver is in; last.io holds the status read most recently.  A status    *)
(* that keeps the loop going leaves the driver where it is.                *)
(***************************************************************************)
PollStatuses == {0, 64, 65, 88, 128, 192}

\* do ... while of ata_wait_bsy_clear
WaitBsyContinues(status) == ATA_ISBSY(status)

WaitDrqContinuesOnError(status) == ~ATA_ISDRQ(status)

\* do ... while of ata_wait_drq_set
WaitDrqContinues(status) == ~ATA_ISDRQ(status) /\ ~ATA_ISERR(status)

\* the three while loops of atapi_read_block
ReadBsyContinues(status) == Bit(status, 7) = 1

ReadDrqContinues(status) == Bit(status, 3) = 0 /\ Bit(status, 0) = 0

ReadEndContinues(status) == Bit(status, 7) = 1 \/ Bit(status, 3) = 1

StatusRead(st) ==
    [last EXCEPT !.io = << inb(Port(ata_dev.base_port, ATA_COMMAND_PORT),
                               st) >>]

PollInit ==
    /\ phase = "install"
    /\ slot = 1
    /\ ata_dev \in [type : JunkTypes, base_port : {0}, control_port : {0},
                    slave_bit : {0}, pos : { <<0, 0>>, <<65535, 65535>> }]
    /\ devices = <<>>
    /\ scan = <<>>
    /\ last = NoOp

\* ata_detect up to the software reset
DetectEnter ==
    /\ phase = "install"
    /\ \E c \in {InstallCalls[slot]} :
         /\ ata_dev' = [ata_dev EXCEPT !.base_port = c.base_port,
                                       !.control_port = c.control_port,
                                       !.slave_bit = c.slave_bit]
         /\ last' = [NoOp EXCEPT !.op = "poll", !.name = c.name]
    /\ phase' = "reset_bsy"
    /\ UNCHANGED <<slot, devices, scan>>

\* the busy poll after the reset, then the signature and the IDENTIFY
\* command
PollResetBsy ==
    /\ phase = "reset_bsy"
    /\ \E st \in PollStatuses :
         /\ last' = StatusRead(st)
         /\ IF WaitBsyContinues(st)
            THEN UNCHANGED <<phase, ata_dev>>
            ELSE /\ phase' = "id_bsy"
                 /\ \E sig \in SignaturePairs :
                      ata_dev' = ClassifySignature(ata_dev, sig[1], sig[2])
    /\ UNCHANGED <<slot, devices, scan>>

\* the busy poll of ata_cmd_identify and the tests that follow it
PollIdBsy ==
    /\ phase = "id_bsy"
    /\ \E st \in PollStatuses :
         /\ last' = StatusRead(st)
         /\ IF WaitBsyContinues(st)
            THEN UNCHANGED phase
            ELSE IF st = 0 \/ ATA_ISERR(st)
            THEN phase' = "verify"
            ELSE \E lba \in { <<0, 0>>, <<20, 235>> } :
                   phase' = IF lba # <<0, 0>> THEN "verify" ELSE "id_drq"
    /\ UNCHANGED <<slot, ata_dev, devices, scan>>

\* the data-request poll of ata_cmd_identify
PollIdDrq ==
    /\ phase = "id_drq"
    /\ \E st \in PollStatuses :
         /\ last' = StatusRead(st)
         /\ phase' = IF WaitDrqContinues(st) THEN phase ELSE "verify"
    /\ UNCHANGED <<slot, ata_dev, devices, scan>>

\* the test of buffer[0], the return of ata_detect and the registration
DetectReturn ==
    /\ phase = "verify"
    /\ \E w \in Word0Values :
       \E c \in {InstallCalls[slot]} :
       \E ret \in {VerifyIdentified(ata_dev, w)} :
       \E g \in {RegisterIfDetected(devices, ret, c.name)} :
         /\ devices' = g.table
         /\ scan' = Append(scan, [base_port |-> c.base_port,
                                  control_port |-> c.control_port,
                                  slave_bit |-> c.slave_bit,
                                  name |-> c.name, ret |-> ret,
                                  reg |-> g.called])
         /\ last' = [NoOp EXCEPT !.op = "detect", !.name = c.name,
                                 !.buffer0 = w, !.ret = ret]
    /\ slot' = slot + 1
    /\ phase' = IF slot = Len(InstallCalls) THEN "run" ELSE "install"
    /\ UNCHANGED ata_dev

\* ata_read up to the PACKET command
ReadEnter(i) ==
    /\ phase = "run"
    /\ phase' = "rd_bsy"
    /\ last' = [NoOp EXCEPT !.op = "poll", !.name = devices[i].name]
    /\ UNCHANGED <<slot, ata_dev, devices, scan>>

PollReadBsy ==
    /\ phase = "rd_bsy"
    /\ \E st \in PollStatuses :
         /\ last' = StatusRead(st)
         /\ phase' = IF ReadBsyContinues(st) THEN phase ELSE "rd_drq"
    /\ UNCHANGED <<slot, ata_dev, devices, scan>>

\* the data-request poll: an error returns, otherwise the packet is sent
\* and the data read
PollReadDrq ==
    /\ phase = "rd_drq"
    /\ \E st \in PollStatuses :
         IF ReadDrqContinues(st)
         THEN /\ last' = StatusRead(st)
              /\ UNCHANGED phase
         ELSE IF PacketFailed(st)
         THEN /\ last' = [StatusRead(st) EXCEPT !.op = "read", !.ret = -1,
                                                !.err = TRUE]
              /\ phase' = "run"
         ELSE /\ last' = StatusRead(st)
              /\ phase' = "rd_end"
    /\ UNCHANGED <<slot, ata_dev, devices, scan>>

\* the poll that ends atapi_read_block, then the return of ata_read
PollReadEnd ==
    /\ phase = "rd_end"
    /\ \E st \in PollStatuses :
         IF ReadEndContinues(st)
         THEN /\ last' = StatusRead(st)
              /\ UNCHANGED phase
         ELSE /\ last' = [StatusRead(st) EXCEPT !.op = "read",
                                                !.result = "OK"]
              /\ phase' = "run"
    /\ UNCHANGED <<slot, ata_dev, devices, scan>>

\* the steps the processor takes on its own once a call has begun
Driver ==
    \/ DetectEnter
    \/ PollResetBsy
    \/ PollIdBsy
    \/ PollIdDrq
    \/ DetectReturn
    \/ PollReadBsy
    \/ PollReadDrq
    \/ PollReadEnd

PollNext ==
    \/ DetectEnter
    \/ PollResetBsy
    \/ PollIdBsy
    \/ PollIdDrq
    \/ DetectReturn
    \/ \E i \in 1..Len(devices) : ReadEnter(i)
    \/ PollReadBsy
    \/ PollReadDrq
    \/ PollReadEnd
    \/ StackReuse

SpecPoll == PollInit /\ [][PollNext]_vars /\ WF_vars(Driver)

InBsyWait == phase \in {"reset_bsy", "id_bsy", "rd_bsy"}
InDrqWait == phase \in {"id_drq", "rd_drq"}
InEndWait == phase = "rd_end"
InRead == phase \in {"rd_bsy", "rd_drq", "rd_end"}
StatusSeen == last.io # <<>>
StatusValue == last.io[1][3]

\* responsive hardware: every wait is eventually shown the status it
\* waits for
Responsive ==
    /\ [](InBsyWait => <>(StatusSeen /\ Bit(StatusValue, 7) = 0))
    /\ [](InDrqWait => <>(StatusSeen /\ (Bit(StatusValue, 3) = 1
                                          \/ Bit(StatusValue, 0) = 1)))
    /\ [](InEndWait => <>(StatusSeen /\ Bit(StatusValue, 7) = 0
                                     /\ Bit(StatusValue, 3) = 0))

\* C18: when the hardware is responsive (after every command the status
\* eventually shows busy clear, eventually shows data-request or error where
\* the driver waits for it, and eventually shows busy and data-request clear
\* after a transfer), ata_install returns after detection on all four slots
\* and every read returns; and a wait for busy clear that is shown busy set
\* stays where it is, however often that happens.
C18_TerminatesIfResponsive ==
    /\ Responsive => /\ <>(phase = "run" /\ Len(scan) = Len(InstallCalls))
                     /\ [](InRead => <>(phase = "run"))
    /\ [][(InBsyWait /\ StatusSeen' /\ Bit(StatusValue', 7) = 1
              /\ last'.op = "poll")
             => phase' = phase]_vars

\* a read has gone through its three waits and returned, after an install
\* that ran the four detections
C18_Witness ==
    /\ phase = "run" /\ Len(scan) = Len(InstallCalls)
    /\ last.op = "read" /\ last.result = "OK"
    /\ StatusSeen /\ StatusValue = 64

(***************************************************************************)
(* The driver against a simulated ATAPI drive on every slot.  The drive    *)
(* answers from the registers and the packet the driver wrote: its store   *)
(* is the fixed function SimStore, a byte-count limit of 0 aborts the      *)
(* command, otherwise it transfers the block up to the limit.  last.data   *)
(* is the sequence of words insw stored in the caller's buffer, last.prev  *)
(* the seek and read made on the same device just before the last seek.    *)
(***************************************************************************)
SimBlockWords == 2

SimCaps == {0, 2, 4, 2048}

SimStore(lba) ==
    [k \in 1..SimBlockWords |-> (lba[1] + lba[2] + k) % U16]

SimDetectInputs ==
    { hw \in DetectInputs : /\ hw.sig = <<20, 235>>
                            /\ hw.id.st2 = 88
                            /\ hw.word = 34240 }

SimAnswer(d, cap) ==
    LET sent == atapi_read_block(d, d.pos, cap,
                                 [st |-> 88, mid |-> 0, hi |-> 0])
        limit == sent.io[4][3] + (U8 * sent.io[5][3])
        lba == PacketLBA(sent.packet)
        n == IF limit < 2 * SimBlockWords THEN limit ELSE 2 * SimBlockWords
    IN  IF limit = 0
        THEN [st |-> 81, mid |-> 0, hi |-> 0, words |-> <<>>]
        ELSE [st |-> 88, mid |-> n % U8, hi |-> n \div U8,
              words |-> SimStore(lba)]

SimInstall == InstallWith(SimDetectInputs)

SimSeek(i) ==
    /\ phase = "run"
    /\ \E pos \in PosValues :
         /\ ata_dev' = ata_seek(Deref(devices[i].p), pos)
         /\ last' = [NoOp EXCEPT
                      !.op = "seek", !.name = devices[i].name,
                      !.pos = pos, !.result = "OK",
                      !.prev = IF last.op = "read" /\ last.pseek # <<>>
                                  /\ last.name = devices[i].name
                               THEN << [pos |-> last.pseek[1],
                                        cap |-> last.cap,
                                        size |-> last.size,
                                        data |-> last.data] >>
                               ELSE <<>>]
    /\ UNCHANGED <<phase, slot, devices, scan>>

SimRead(i) ==
    /\ phase = "run"
    /\ \E cap \in SimCaps :
       \E hw \in {SimAnswer(Deref(devices[i].p), ToU32(cap))} :
       \E r \in {ata_read(Deref(devices[i].p), ToU32(cap),
                          [st |-> hw.st, mid |-> hw.mid, hi |-> hw.hi])} :
         /\ ata_dev' = r.dev
         /\ last' = [NoOp EXCEPT
                      !.op = "read", !.name = devices[i].name,
                      !.pseek = IF last.op = "seek"
                                   /\ last.name = devices[i].name
                                THEN <<last.pos>> ELSE <<>>,
                      !.prev = IF last.op = "seek"
                                  /\ last.name = devices[i].name
                               THEN last.prev ELSE <<>>,
                      !.cap = ToU32(cap), !.size = r.size,
                      !.result = r.result, !.ret = r.ret, !.lba = r.lba,
                      !.err = (Bit(hw.st, 0) = 1), !.packet = r.packet,
                      !.nbytes = r.nbytes, !.io = r.io,
                      !.data = SubSeq(hw.words, 1, r.nbytes \div 2)]
    /\ UNCHANGED <<phase, slot, devices, scan>>

SimNext ==
    \/ SimInstall
    \/ \E i \in 1..Len(devices) : SimSeek(i)
    \/ \E i \in 1..Len(devices) : SimRead(i)

SpecSim == Init /\ [][SimNext]_vars

\* the last four calls on one device were seek(P), read(cap), seek(P),
\* read(cap)
SamePairTwice ==
    /\ last.op = "read" /\ last.pseek # <<>> /\ last.prev # <<>>
    /\ last.prev[1].pos = last.pseek[1]
    /\ last.prev[1].cap = last.cap

\* C14: against the simulated drive, seek(P) and read(cap) followed by
\* seek(P) and read(cap) on the same device store the same words in the
\* buffer and return the same transfer size, for every P and cap.
C14_IdempotentRead ==
    SamePairTwice => (/\ last.data = last.prev[1].data
                      /\ last.size = last.prev[1].size)

\* twice the two words of block 0x01020304
C14_Witness ==
    /\ SamePairTwice
    /\ last.pseek = << <<258, 772>> >> /\ last.cap = <<0, 4>>
    /\ last.data = <<1031, 1032>> /\ last.size = <<0, 4>>
====
